---- MODULE Spec2Model ----
(***************************************************************************)
(* The orchestration core of I-AURA-MED2D: the agent execution wrapper     *)
(* (BaseAgent), the five stage agents, the workflow tracker                *)
(* (WorkflowManager) and the pipeline controller                           *)
(* (I_AURA_MED2D_Pipeline.process).                                        *)
(*                                                                         *)
(* One controller owns one tracker and one agent per stage.  The           *)
(* specifications share the state and the operations:                      *)
(*   Spec          one caller makes calls of process() and get_status()    *)
(*                 one after another;                                      *)
(*   SpecConc      several callers' calls interleave, as behind the        *)
(*                 threaded REST front end, which shares one controller;   *)
(*   SpecAgent     a client calls execute() and reset() on the agents;     *)
(*   SpecClient    a client makes a long run of execute(), reset() and     *)
(*                 get_status() calls on one agent;                        *)
(*   SpecTracker   a client calls create_workflow() and                    *)
(*                 complete_workflow() on the tracker;                     *)
(*   SpecValidate  validate() is called on an output and a list of keys;   *)
(*   SpecOmission  process() of the validation stage is called on a report *)
(*                 and a list of labels;                                   *)
(*   SpecOmissionMany  the same on long lists of labels;                   *)
(*   SpecNormalize normalize_label() is called on a string;                *)
(*   SpecAnatomical  extract_anatomical_labels() is called on a list of    *)
(*                 labels;                                                 *)
(*   SpecFilter    _filter_by_confidence() is called on three sequences    *)
(*                 and a threshold;                                        *)
(*   SpecSegment   the model path of the segmentation stage runs on the    *)
(*                 model's detections.                                     *)
(***************************************************************************)
EXTENDS Integers, Sequences, FiniteSets, TLC

\* Number of process() calls the single-threaded caller makes.
MaxRequests == 1

\* Number of concurrent callers (request threads of the front end), each
\* making one call of process().
NumCallers == 2

\* Number of direct execute() calls made on the agents.
MaxExecutes == 2

Callers == 1..NumCallers

None == "None"

\* The stages in the order the controller sequences them.
StageOrder == <<"segmentation", "routing", "report", "reasoning", "validation">>

Stages == {StageOrder[i] : i \in 1..Len(StageOrder)}

StageIndex(s) == CHOOSE i \in 1..Len(StageOrder) : StageOrder[i] = s

VARIABLES
    workflows,          \* WorkflowManager.workflows: id -> record (ids are 1..n)
    statistics,         \* WorkflowManager.statistics (defaultdict(int))
    status,             \* BaseAgent.status, per agent
    last_error,         \* BaseAgent.last_error, per agent
    processing_history, \* BaseAgent.processing_history, per agent
    pc,                 \* position of each caller inside process()
    request,            \* arguments of each caller's process() call
    workflow_id,        \* local workflow_id of each call (0: not created yet)
    cur,                \* stage the call is at
    results,            \* the *_result locals of each call, per stage
    calls,              \* stages whose execute() the call has invoked, in order
    raised,             \* message of the RuntimeError raised in the try block
    reg,                \* counter value read by a pending `+= 1`
    outcome,            \* how the call ended: "none", "returned", "raised"
    direct,             \* agent inside a direct execute() call, or None
    executes,           \* number of direct execute() calls begun
    name,               \* BaseAgent.name, per agent
    config,             \* BaseAgent.config, per agent
    log,                \* per agent, the metadata status of every execute()
                        \* a client of the agent got back since the agent
                        \* was constructed or reset
    snapshot,           \* <<what get_status() just returned>>, else <<>>
    last_op,            \* <<operation, target>> of the call made last on
                        \* the controller, the tracker or an agent
    arg,                \* argument of a call of one function on its own
    ret                 \* <<what that call returned>>, <<>> before it

vars == <<workflows, statistics, status, last_error, processing_history,
          pc, request, workflow_id, cur, results, calls, raised,
          reg, outcome, direct, executes, name, config, log, snapshot,
          last_op, arg, ret>>

trackerVars == <<workflows, statistics>>
agentVars == <<status, last_error, processing_history, name, config>>
localVars == <<request, workflow_id, cur, results, calls, raised, reg, outcome>>
observerVars == <<log, snapshot, last_op>>
pureVars == <<arg, ret>>
clientVars == <<direct, executes, observerVars, pureVars>>

-----------------------------------------------------------------------------
(* Requests *)

\* image: None or an image; user_query: absent, blank or a question.
Images == {None, "img"}
Queries == {None, " ", "q"}

RequestSet == [image : Images, user_query : Queries,
               enable_reasoning : BOOLEAN, enable_validation : BOOLEAN]

NoRequest == [image |-> None, user_query |-> None,
              enable_reasoning |-> FALSE, enable_validation |-> FALSE]

-----------------------------------------------------------------------------
(* Python floats: IEEE-754 binary64 with round-to-nearest, ties-to-even *)

(***************************************************************************)
(* The confidences are computed from the literals 1.0, 0.2 and 0.1 by      *)
(* subtraction.  Let T = 3602879701896397 = 0xCCCCCCCCCCCCD.  The literal   *)
(* 0.1 denotes the double T * 2^-55 and 0.2 the double 2T * 2^-55, and     *)
(* 10T = 2^55 + 2, so that 1.0 = (10T - 2) * 2^-55.  A double is written    *)
(* [n, d] for the value (n*T + d) * 2^-55, with d small against T.  The     *)
(* exact difference of two doubles is again n*T + d; it is rounded to the   *)
(* 53-bit significand of its binade, which takes its residue modulo 16     *)
(* (T mod 16 = 13) and its place among the powers of two                    *)
(* (2^54 = 5T - 1, 2^53 = (5T - 1) / 2, 2^52 = (5T - 1) / 4).               *)
(***************************************************************************)
Dbl(n, d) == [n |-> n, d |-> d]

Zero == Dbl(0, 0)
One == Dbl(10, -2)
Tenth == Dbl(1, 0)
Fifth == Dbl(2, 0)

IsNegative(x) == x.n < 0 \/ (x.n = 0 /\ x.d < 0)

Negate(x) == Dbl(-x.n, -x.d)

\* The spacing of the doubles around the value x >= 0, in units of 2^-55.
Ulp(x) ==
    IF x.n > 10 \/ (x.n = 10 /\ x.d >= -2) THEN 8
    ELSE IF x.n > 5 \/ (x.n = 5 /\ x.d >= -1) THEN 4
    ELSE IF x.n >= 3 THEN 2
    ELSE 1

\* (n*T + d) mod k for k dividing 16
Residue(x, k) == (x.n * 13 + x.d) % k

\* The double nearest to the exact value x >= 0, ties to the even significand.
RoundPositive(x) ==
    LET ulp == Ulp(x)
        r == Residue(x, ulp)
        lower == Dbl(x.n, x.d - r)
        upper == Dbl(x.n, x.d - r + ulp)
    IN IF 2 * r < ulp THEN lower
       ELSE IF 2 * r > ulp THEN upper
       ELSE IF Residue(lower, 2 * ulp) = 0 THEN lower ELSE upper

Round(x) == IF IsNegative(x) THEN Negate(RoundPositive(Negate(x)))
            ELSE RoundPositive(x)

\* a - b and max(a, b) of Python floats
Minus(a, b) == Round(Dbl(a.n - b.n, a.d - b.d))

Max(a, b) == IF IsNegative(Dbl(a.n - b.n, a.d - b.d)) THEN b ELSE a

-----------------------------------------------------------------------------
(* Stage implementations: process() of each agent *)

\* What the stage's collaborator does during one call of process():
\*   "ok"      the model / client / validators answer
\*   "absent"  the segmentation model was never loaded (self.model is None)
\*   "raises"  the model / client / validator call raises
\* and, for an agent whose process() is another implementation of the
\* abstract BaseAgent.process (a subclass or a test double):
\*   "stub_raise"    process() raises
\*   "stub_mapping"  process() returns a mapping that is not a dict
\*   "stub_other"    process() returns something that is no mapping
Stubs == {"stub_raise", "stub_mapping", "stub_other"}

Env(s) ==
    CASE s = "segmentation" -> {"ok", "absent", "raises"} \cup Stubs
      [] s = "routing"      -> {"ok"} \cup Stubs
      [] OTHER              -> {"ok", "raises"} \cup Stubs

\* The values of an output that the stages after it or the caller read; an
\* output of which none is modelled has NoBody.
NoBody == [kind |-> "none"]

\* The output of one process() call: whether it raised (and the message),
\* the shape of the returned object, its keys, where the content came from
\* ("model", "fallback" or "stub"), whether a fault of the underlying
\* collaborator was swallowed inside the stage, whether process() is another
\* implementation than the stage agent's, and the values of the output.
ProcOut(exc, shape, keys, src, swallowed) ==
    [exc |-> exc, shape |-> shape, keys |-> keys, src |-> src,
     swallowed |-> swallowed, stub |-> FALSE, body |-> NoBody]

WithBody(out, body) == [out EXCEPT !.body = body]

Raise(msg) == ProcOut(msg, "none", {}, "none", FALSE)

StubOut(e) ==
    CASE e = "stub_raise"   -> Raise("stub fault")
      [] e = "stub_mapping" -> ProcOut(None, "mapping", {}, "stub", FALSE)
      [] e = "stub_other"   -> ProcOut(None, "other", {}, "stub", FALSE)

StubProcess(e) == [StubOut(e) EXCEPT !.stub = TRUE]

SegmentationKeys == {"masks", "labels", "confidences", "modality",
                     "body_regions", "saved_image_path", "raw_segmentation"}

\* input_data.get(...) of an input that is no dict raises AttributeError
SegmentationProcess(input, e) ==
    IF input.shape # "dict"
    THEN Raise("AttributeError")
    ELSE IF input.image = None
    THEN Raise("Input 'image' is required for segmentation")
    ELSE IF e = "ok"
         THEN ProcOut(None, "dict", SegmentationKeys, "model", FALSE)
         \* model missing, or model.segment raised and was caught: demo labels
         ELSE ProcOut(None, "dict", SegmentationKeys, "fallback", e = "raises")

RouterProcess(input, e) ==
    ProcOut(None, "dict", {"selected_model", "confidence", "reason", "device"},
            "model", FALSE)

ReportFallback ==
    [kind |-> "report",
     findings |-> "Unable to generate findings from the provided image.",
     impression |-> "Please review the image manually."]

\* (mutant) a missing image is not caught
ReportProcessRaising(input, e) ==
    IF input.shape = "dict" /\ input.image = None
    THEN Raise("No image provided to ReportAgent")
    ELSE WithBody(ProcOut(None, "dict", {"findings", "impression"}, "model",
                          FALSE),
                  [kind |-> "report", findings |-> "generated findings",
                   impression |-> "generated impression"])

ReportProcess(input, e) ==
    IF input.shape = "dict" /\ input.image # None /\ e = "ok"
    THEN WithBody(ProcOut(None, "dict", {"findings", "impression"}, "model",
                          FALSE),
                  [kind |-> "report", findings |-> "generated findings",
                   impression |-> "generated impression"])
    \* no dict, no image, or rrg_model.generate raised: all caught (line 65),
    \* the fixed fallback pair
    ELSE WithBody(ProcOut(None, "dict", {"findings", "impression"},
                          "fallback",
                          input.shape = "dict" /\ input.image # None
                              /\ e = "raises"),
                  ReportFallback)

\* question.strip() is empty for an absent or blank question
IsBlank(q) == q \in {None, "", " "}

\* The literals 0.9 (line 105) and 0.5 (line 115) as doubles.
ReasoningConfidence == Dbl(9, -1)
FallbackConfidence == Dbl(5, -1)

ReasoningFallback ==
    [kind |-> "reasoning",
     answer |-> "Clinical reasoning temporarily unavailable.",
     confidence |-> FallbackConfidence]

\* The input reaches the client call of line 98.
ReasoningInputOk(input) ==
    input.shape = "dict" /\ ~IsBlank(input.question) /\ input.report # ""

\* (mutant) the checks of the input raise out of process()
ReasoningProcessStrict(input, e) ==
    IF ~ReasoningInputOk(input)
    THEN Raise("ValueError")
    ELSE WithBody(ProcOut(None, "dict", {"answer", "confidence", "reasoning"},
                          "model", FALSE),
                  [kind |-> "reasoning", answer |-> "model answer",
                   confidence |-> ReasoningConfidence])

\* (mutant) the question is passed to the client unchecked
ReasoningProcessUnchecked(input, e) ==
    IF e = "ok"
    THEN WithBody(ProcOut(None, "dict", {"answer", "confidence", "reasoning"},
                          "model", FALSE),
                  [kind |-> "reasoning", answer |-> "model answer",
                   confidence |-> ReasoningConfidence])
    ELSE WithBody(ProcOut(None, "dict", {"answer", "confidence", "reasoning"},
                          "fallback", TRUE),
                  ReasoningFallback)

ReasoningProcess(input, e) ==
    IF ReasoningInputOk(input) /\ e = "ok"
    THEN WithBody(ProcOut(None, "dict", {"answer", "confidence", "reasoning"},
                          "model", FALSE),
                  [kind |-> "reasoning", answer |-> "model answer",
                   confidence |-> ReasoningConfidence])
    \* every fault is caught (line 109): the fixed fallback answer
    ELSE WithBody(ProcOut(None, "dict", {"answer", "confidence", "reasoning"},
                          "fallback", ReasoningInputOk(input) /\ e = "raises"),
                  ReasoningFallback)

ValidationProcess(input, e) ==
    IF input.shape # "dict"
    THEN Raise("AttributeError")
    ELSE IF e = "raises"
    THEN Raise("validator fault")
    ELSE ProcOut(None, "dict", {"is_valid", "warnings", "errors", "confidence"},
                 "model", FALSE)

\* The content of the validation stage's output (lines 52-81).  A string is
\* a sequence of characters; str.lower() and the substring test `in`:
UpperCase ==
    <<"A", "B", "C", "D", "E", "F", "G", "H", "I", "J", "K", "L", "M",
      "N", "O", "P", "Q", "R", "S", "T", "U", "V", "W", "X", "Y", "Z">>

LowerCase ==
    <<"a", "b", "c", "d", "e", "f", "g", "h", "i", "j", "k", "l", "m",
      "n", "o", "p", "q", "r", "s", "t", "u", "v", "w", "x", "y", "z">>

Lower(str) ==
    [i \in 1..Len(str) |->
        IF \E k \in DOMAIN UpperCase : UpperCase[k] = str[i]
        THEN LowerCase[CHOOSE k \in DOMAIN UpperCase : UpperCase[k] = str[i]]
        ELSE str[i]]

Contains(text, w) ==
    \E i \in 0..(Len(text) - Len(w)) : SubSeq(text, i + 1, i + Len(w)) = w

\* line 58: findings.lower() + " " + impression.lower()
ReportText(report) ==
    Lower(report.findings) \o <<" ">> \o Lower(report.impression)

\* The warnings and the confidence after the loop over the first i labels
\* (lines 69-72).
RECURSIVE OmissionLoop(_, _, _)
OmissionLoop(labels, text, i) ==
    IF i = 0 THEN [warnings |-> <<>>, confidence |-> One]
    ELSE LET before == OmissionLoop(labels, text, i - 1)
         IN IF ~Contains(text, Lower(labels[i]))
            THEN [warnings |-> Append(before.warnings,
                                      <<"Omission", labels[i]>>),
                  confidence |-> Minus(before.confidence, Tenth)]
            ELSE before

\* verdict: whether a loaded validator rejects the report ("rejects") or
\* none does ("ok").
ValidationOutput(report, labels, verdict) ==
    LET checked == OmissionLoop(labels, ReportText(report), Len(labels))
    IN [kind |-> "validation",
        is_valid |-> verdict # "rejects",
        warnings |-> checked.warnings,
        errors |-> IF verdict = "rejects" THEN <<"validator error">> ELSE <<>>,
        confidence |-> checked.confidence]

process(s, input, e) ==
    IF e \in Stubs THEN StubProcess(e)
    ELSE CASE s = "segmentation" -> SegmentationProcess(input, e)
           [] s = "routing"      -> RouterProcess(input, e)
           [] s = "report"       -> ReportProcess(input, e)
           [] s = "reasoning"    -> ReasoningProcess(input, e)
           [] s = "validation"   -> ValidationProcess(input, e)

-----------------------------------------------------------------------------
(* Agent execution wrapper: BaseAgent *)

_get_required_output_keys(s) ==
    IF s = "validation" THEN <<"is_valid", "confidence">> ELSE <<>>

\* The confidence validate() is left with after the loop over the first i
\* required keys (lines 104-107), starting from c.
RECURSIVE KeyLoop(_, _, _, _)
KeyLoop(required, out, i, c) ==
    IF i = 0 THEN c
    ELSE LET before == KeyLoop(required, out, i - 1, c)
         IN IF required[i] \notin out.keys
            THEN Max(Zero, Minus(before, Fifth))
            ELSE before

\* validate() for the declared list `required`: one error when the output is
\* no dict, one per missing key.
validate_keys(required, out) ==
    LET notDict == IF out.shape # "dict"
                   THEN <<"Output must be a dictionary">> ELSE <<>>
        missing == SelectSeq(required, LAMBDA k : k \notin out.keys)
        errors == notDict \o missing
    IN [is_valid |-> Len(errors) = 0, errors |-> errors, warnings |-> <<>>,
        confidence |-> KeyLoop(required, out, Len(required),
                               IF out.shape # "dict" THEN Zero ELSE One)]

validate(s, out) == validate_keys(_get_required_output_keys(s), out)

MetadataKeys == {"agent_name", "status", "processing_time", "validation",
                 "timestamp"}
ErrorMetadataKeys == {"agent_name", "status", "error", "error_trace",
                      "processing_time", "timestamp"}

\* What execute() returns: the keys of the returned dict, the values of the
\* output, the _metadata block (its status, its keys, its error, the
\* validation report if it has one) and, as observations, where the content
\* came from, whether process() raised / swallowed a collaborator fault,
\* whether it is another implementation, and whether it returned an output
\* that does not pass validate().
NoResult == [status |-> "none", keys |-> {}, body |-> NoBody, meta |-> {},
             error |-> None, validation |-> <<>>, src |-> "none",
             faulted |-> FALSE, swallowed |-> FALSE, stub |-> FALSE,
             invalid |-> FALSE]

\* The except block, lines 170-193: only the metadata block is returned.
ErrorResult(s, out, msg) ==
    [status |-> "error", keys |-> {"_metadata"}, body |-> NoBody,
     meta |-> ErrorMetadataKeys, error |-> msg, validation |-> <<>>,
     src |-> "none", faulted |-> out.exc # None, swallowed |-> FALSE,
     stub |-> out.stub,
     invalid |-> out.exc = None /\ ~validate(s, out).is_valid]

\* The dict execute() returns for the output `out` of process().
execute_result(s, out) ==
    IF out.exc # None
    THEN ErrorResult(s, out, out.exc)
    ELSE IF out.shape = "other"
         \* `key not in output` or result['_metadata'] = ... raises TypeError
         \* inside the try block
         THEN ErrorResult(s, out, "TypeError")
         ELSE [status |-> IF validate(s, out).is_valid
                          THEN "success" ELSE "validation_failed",
               keys |-> out.keys \cup {"_metadata"},
               body |-> out.body,
               meta |-> MetadataKeys,
               error |-> None,
               validation |-> <<validate(s, out)>>,
               src |-> out.src,
               faulted |-> FALSE,
               swallowed |-> out.swallowed,
               stub |-> out.stub,
               invalid |-> ~validate(s, out).is_valid]

\* The entry appended to processing_history and the agent status left behind.
history_entry(r) ==
    IF r.status = "error"
    THEN [status |-> "error", error |-> r.error]
    ELSE [status |-> "success", error |-> None]

\* (mutant) the agent is marked completed whatever happened
final_status_always_completed(r) == "completed"

final_status(r) == IF r.status = "error" THEN "error" ELSE "completed"

\* (mutant) execute() does not mark the agent as processing
execute_begin_keeps_status(s) ==
    /\ last_error' = [last_error EXCEPT ![s] = None]
    /\ UNCHANGED <<status, processing_history, name, config>>

\* (mutant) execute() leaves the error of the call before in place
execute_begin_keeps_error(s) ==
    /\ status' = [status EXCEPT ![s] = "processing"]
    /\ UNCHANGED <<last_error, processing_history, name, config>>

\* execute(), lines 133-135: entering the wrapper.
execute_begin(s) ==
    /\ status' = [status EXCEPT ![s] = "processing"]
    /\ last_error' = [last_error EXCEPT ![s] = None]
    /\ UNCHANGED <<processing_history, name, config>>

\* execute(), lines 137-193: process, validate, record, return r.
execute_end(s, r) ==
    /\ status' = [status EXCEPT ![s] = final_status(r)]
    /\ last_error' = [last_error EXCEPT
                        ![s] = IF r.status = "error" THEN r.error ELSE @]
    /\ processing_history' =
           [processing_history EXCEPT ![s] = Append(@, history_entry(r))]
    /\ UNCHANGED <<name, config>>

\* (mutant) reset() keeps the history
reset_keeps_history(s) ==
    /\ status' = [status EXCEPT ![s] = "initialized"]
    /\ last_error' = [last_error EXCEPT ![s] = None]
    /\ UNCHANGED <<processing_history, name, config>>

reset(s) ==
    /\ status' = [status EXCEPT ![s] = "initialized"]
    /\ last_error' = [last_error EXCEPT ![s] = None]
    /\ processing_history' = [processing_history EXCEPT ![s] = <<>>]
    /\ UNCHANGED <<name, config>>

\* get_status(), lines 216-222: the last RecentWindow entries of the history.
RecentWindow == 5

\* (mutant) the whole history is reported
RecentAll(h) == h

Recent(h) == SubSeq(h, IF Len(h) > RecentWindow
                       THEN Len(h) - RecentWindow + 1 ELSE 1, Len(h))

get_status(s) ==
    [name |-> name[s], status |-> status[s], last_error |-> last_error[s],
     processing_count |-> Len(processing_history[s]),
     recent_history |-> Recent(processing_history[s])]

\* (mutant) reporting the error clears it
get_status_clears_error(s) ==
    [status |-> status[s], last_error |-> None,
     processing_history |-> processing_history[s]]

\* The fields of the agent after a call of get_status(): it assigns none.
get_status_leaves(s) ==
    [status |-> status[s], last_error |-> last_error[s],
     processing_history |-> processing_history[s]]

-----------------------------------------------------------------------------
(* Workflow tracker: WorkflowManager *)

\* statistics is a defaultdict(int): statistics.get(k, 0) reads a counter,
\* statistics[k] reads it and stores the 0 of a counter that is not there,
\* statistics[k] = v stores it.
Stat(k) == IF k \in DOMAIN statistics THEN statistics[k] ELSE 0

Touched(k) ==
    [j \in DOMAIN statistics \cup {k} |->
        IF j \in DOMAIN statistics THEN statistics[j] ELSE 0]

Stored(k, v) ==
    [j \in DOMAIN statistics \cup {k} |-> IF j = k THEN v ELSE statistics[j]]

\* create_workflow(), lines 30-37: a fresh id and its record.  `mutations`
\* counts the complete_workflow() calls that changed the record and `owner`
\* names the call that created it (observations, not fields of the code).
NewWorkflow(t) ==
    [status |-> "created", completed_at |-> None, error |-> None,
     mutations |-> 0, owner |-> t]

FreshId == Len(workflows) + 1

\* complete_workflow(), lines 74-78: the record after completion.
Completed(w, st, error) ==
    [w EXCEPT !.status = st,
              !.completed_at = "now",
              !.error = IF error \notin {None, ""} THEN error ELSE @,
              !.mutations = @ + 1]

\* get_statistics(), lines 101-108
active_workflows ==
    Cardinality({id \in 1..Len(workflows) :
                    workflows[id].status \notin {"completed", "error"}})

get_statistics ==
    [total |-> Stat("total"), completed |-> Stat("completed"),
     success |-> Stat("success"), error |-> Stat("error"),
     active_workflows |-> active_workflows]

\* What a call of get_statistics() changes in the tracker: line 102 reads
\* statistics['total'] through the defaultdict.
get_statistics_effect ==
    /\ statistics' = Touched("total")
    /\ UNCHANGED workflows

-----------------------------------------------------------------------------
(* Pipeline controller: I_AURA_MED2D_Pipeline.process *)

\* The stages whose non-success aborts the request, and the message raised.
FatalStages == {"segmentation", "routing", "report"}

FailureMessage(s) ==
    CASE s = "segmentation" -> "Segmentation failed"
      [] s = "routing"      -> "Routing failed"
      [] s = "report"       -> "Report generation failed"
      [] OTHER              -> None

\* (mutant) only a stage fault aborts, a validation failure does not
FailureOnErrorOnly(s, r) ==
    IF s \in FatalStages /\ r.status = "error" THEN FailureMessage(s) ELSE None

\* (mutant) the optional stages abort the request as well
FailureOfAnyStage(s, r) ==
    IF r.status # "success" THEN "Stage failed" ELSE None

\* The message of the RuntimeError the controller raises after stage s has
\* returned r (lines 146-147, 158-159, 174-175), or None.
Failure(s, r) ==
    IF s \in FatalStages /\ r.status # "success" THEN FailureMessage(s) ELSE None

\* (mutant) the enable flags are ignored
EnabledAlways(s, rq) == TRUE

Enabled(s, rq) ==
    CASE s = "reasoning"  -> rq.enable_reasoning
      [] s = "validation" -> rq.enable_validation
      [] OTHER            -> TRUE

\* The stage the controller invokes after s, or None when none is left.
NextStage(s, rq) ==
    LET later == {i \in 1..Len(StageOrder) :
                     i > StageIndex(s) /\ Enabled(StageOrder[i], rq)}
    IN IF later = {} THEN None
       ELSE StageOrder[CHOOSE i \in later : \A j \in later : i <= j]

\* The input dict the controller builds for stage s; the report it passes on
\* is the report stage's result, generated or fallback text.
StageInput(s, rq) ==
    [shape |-> "dict", image |-> rq.image, question |-> rq.user_query,
     report |-> "text",
     task |-> IF rq.user_query \in {None, ""} THEN "explain" ELSE "qa"]

NoResults == [s \in Stages |-> NoResult]

\* The names the agents are constructed with, and a configuration of the
\* deployment as (key, value) pairs.
AgentName(s) ==
    CASE s = "segmentation" -> "SegmentationAgent"
      [] s = "routing"      -> "RouterAgent"
      [] s = "report"       -> "ReportAgent"
      [] s = "reasoning"    -> "ReasoningAgent"
      [] s = "validation"   -> "ValidationAgent"

AgentConfig(s) ==
    IF s = "reasoning" THEN {<<"api_url", "url">>} ELSE {<<"device", "cpu">>}

\* The controller, its tracker and its agents after construction.
Constructed ==
    /\ workflows = <<>>
    /\ statistics = [k \in {} |-> 0]
    /\ status = [s \in Stages |-> "initialized"]
    /\ last_error = [s \in Stages |-> None]
    /\ processing_history = [s \in Stages |-> <<>>]
    /\ pc = [t \in Callers |-> "idle"]
    /\ request = [t \in Callers |-> NoRequest]
    /\ workflow_id = [t \in Callers |-> 0]
    /\ cur = [t \in Callers |-> None]
    /\ results = [t \in Callers |-> NoResults]
    /\ calls = [t \in Callers |-> <<>>]
    /\ raised = [t \in Callers |-> None]
    /\ reg = [t \in Callers |-> 0]
    /\ outcome = [t \in Callers |-> "none"]
    /\ direct = None
    /\ executes = 0
    /\ name = [s \in Stages |-> AgentName(s)]
    /\ config = [s \in Stages |-> AgentConfig(s)]
    /\ log = [s \in Stages |-> <<>>]
    /\ snapshot = <<>>
    /\ last_op = <<"none", None>>

Init ==
    /\ Constructed
    /\ arg = <<>>
    /\ ret = <<>>

\* Caller t calls process(rq); create_workflow() stores the new record
\* (line 133, workflow_manager.py lines 30-37).  The locals of the caller's
\* previous call are gone.
Start(t, rq) ==
    /\ pc[t] \in {"idle", "done"}
    /\ request' = [request EXCEPT ![t] = rq]
    /\ workflow_id' = [workflow_id EXCEPT ![t] = FreshId]
    /\ workflows' = Append(workflows, NewWorkflow(t))
    /\ pc' = [pc EXCEPT ![t] = "create_read"]
    /\ cur' = [cur EXCEPT ![t] = None]
    /\ results' = [results EXCEPT ![t] = NoResults]
    /\ calls' = [calls EXCEPT ![t] = <<>>]
    /\ raised' = [raised EXCEPT ![t] = None]
    /\ outcome' = [outcome EXCEPT ![t] = "none"]
    /\ snapshot' = <<>>
    /\ last_op' = <<"process", None>>
    /\ UNCHANGED <<statistics, agentVars, reg, direct, executes, log, pureVars>>

\* create_workflow(), line 38: self.statistics['total'] += 1, the read ...
CreateRead(t) ==
    /\ pc[t] = "create_read"
    /\ reg' = [reg EXCEPT ![t] = Stat("total")]
    /\ statistics' = Touched("total")
    /\ pc' = [pc EXCEPT ![t] = "create_write"]
    /\ UNCHANGED <<workflows, agentVars, request, workflow_id, cur, results,
                   calls, raised, outcome, clientVars>>

\* ... and the write; the controller then goes on to segmentation.
CreateWrite(t) ==
    /\ pc[t] = "create_write"
    /\ statistics' = Stored("total", reg[t] + 1)
    /\ cur' = [cur EXCEPT ![t] = "segmentation"]
    /\ pc' = [pc EXCEPT ![t] = "call"]
    /\ UNCHANGED <<workflows, agentVars, request, workflow_id, results, calls,
                   raised, reg, outcome, clientVars>>

\* The controller calls execute() of the current stage's agent.
Invoke(t) ==
    /\ pc[t] = "call"
    /\ execute_begin(cur[t])
    /\ calls' = [calls EXCEPT ![t] = Append(@, cur[t])]
    /\ pc' = [pc EXCEPT ![t] = "exec"]
    /\ UNCHANGED <<trackerVars, request, workflow_id, cur, results, raised,
                   reg, outcome, clientVars>>

\* execute() returns; the controller checks the status and moves on: to the
\* except block, to the next enabled stage, or to the end of the try block.
Return(t, e) ==
    /\ pc[t] = "exec"
    /\ LET s == cur[t]
           r == execute_result(s, process(s, StageInput(s, request[t]), e))
           nxt == NextStage(s, request[t])
       IN /\ execute_end(s, r)
          /\ results' = [results EXCEPT ![t][s] = r]
          /\ IF Failure(s, r) # None
             THEN /\ raised' = [raised EXCEPT ![t] = Failure(s, r)]
                  /\ pc' = [pc EXCEPT ![t] = "complete"]
                  /\ cur' = cur
             ELSE /\ raised' = raised
                  /\ pc' = [pc EXCEPT ![t] = IF nxt = None
                                             THEN "complete" ELSE "call"]
                  /\ cur' = [cur EXCEPT ![t] = IF nxt = None THEN @ ELSE nxt]
    /\ UNCHANGED <<trackerVars, request, workflow_id, calls, reg, outcome,
                   clientVars>>

\* (mutant) the except block closes the record as a success too
CompletionStatusAlwaysSuccess(t) == "success"

\* The status the controller passes to complete_workflow() (lines 227, 234).
CompletionStatus(t) == IF raised[t] = None THEN "success" ELSE "error"

\* How process() ends: it returns the result (line 230) or re-raises (235).
Ending(t) == IF raised[t] = None THEN "returned" ELSE "raised"

\* complete_workflow(), lines 74-78: the record is closed; an unknown id
\* changes nothing.
Complete(t) ==
    /\ pc[t] = "complete"
    /\ IF workflow_id[t] \in 1..Len(workflows)
       THEN /\ workflows' = [workflows EXCEPT ![workflow_id[t]] =
                                Completed(@, CompletionStatus(t), raised[t])]
            /\ pc' = [pc EXCEPT ![t] = "complete_read"]
            /\ outcome' = outcome
       ELSE /\ workflows' = workflows
            /\ pc' = [pc EXCEPT ![t] = "done"]
            /\ outcome' = [outcome EXCEPT ![t] = Ending(t)]
    /\ UNCHANGED <<statistics, agentVars, request, workflow_id, cur, results,
                   calls, raised, reg, clientVars>>

\* complete_workflow(), line 80: self.statistics[status] += 1, the read ...
CompleteRead(t) ==
    /\ pc[t] = "complete_read"
    /\ reg' = [reg EXCEPT ![t] = Stat(CompletionStatus(t))]
    /\ statistics' = Touched(CompletionStatus(t))
    /\ pc' = [pc EXCEPT ![t] = "complete_write"]
    /\ UNCHANGED <<workflows, agentVars, request, workflow_id, cur, results,
                   calls, raised, outcome, clientVars>>

\* ... and the write; process() then returns the result or re-raises.
CompleteWrite(t) ==
    /\ pc[t] = "complete_write"
    /\ statistics' = Stored(CompletionStatus(t), reg[t] + 1)
    /\ outcome' = [outcome EXCEPT ![t] = Ending(t)]
    /\ pc' = [pc EXCEPT ![t] = "done"]
    /\ UNCHANGED <<workflows, agentVars, request, workflow_id, cur, results,
                   calls, raised, reg, clientVars>>

\* get_status() of the controller, lines 237-248: get_status() of every
\* agent and get_statistics() of the tracker, called between two requests.
ControllerStatus ==
    [agents |-> [s \in Stages |-> get_status(s)], workflows |-> get_statistics]

GetStatus(t) ==
    /\ pc[t] \in {"idle", "done"}
    /\ snapshot' = <<ControllerStatus>>
    /\ status' = [s \in Stages |-> get_status_leaves(s).status]
    /\ last_error' = [s \in Stages |-> get_status_leaves(s).last_error]
    /\ processing_history' =
           [s \in Stages |-> get_status_leaves(s).processing_history]
    /\ get_statistics_effect
    /\ last_op' = <<"get_status", "controller">>
    /\ UNCHANGED <<name, config, pc, localVars, direct, executes, log,
                   pureVars>>

\* A single-threaded caller: one call of process() at a time.
Caller == CHOOSE t \in Callers : \A u \in Callers : t <= u

Next ==
    \/ \E rq \in RequestSet : Len(workflows) < MaxRequests /\ Start(Caller, rq)
    \/ CreateRead(Caller)
    \/ CreateWrite(Caller)
    \/ Invoke(Caller)
    \/ \E e \in Env(cur[Caller]) : Return(Caller, e)
    \/ Complete(Caller)
    \/ CompleteRead(Caller)
    \/ CompleteWrite(Caller)
    \/ GetStatus(Caller)

Spec == Init /\ [][Next]_vars

\* The Pipeline Result process() returns (lines 203-225): the sub-result of
\* a stage is the *_result local, NoResult standing for None.
PipelineResult(t) ==
    [segmentation |-> results[t]["segmentation"],
     routing |-> results[t]["routing"],
     report |-> results[t]["report"],
     reasoning |-> results[t]["reasoning"],
     validation |-> results[t]["validation"],
     workflow_id |-> workflow_id[t]]

-----------------------------------------------------------------------------
(* The REST front end: create_app() builds one controller with the deployed *)
(* agents; every /process request runs process() on it in its own thread.   *)

\* /process answers 400 without calling the controller when image is None.
\* A blank question takes the path of an absent one through every stage, so
\* the concurrent requests carry a question or none.
RestRequests == {rq \in RequestSet : rq.image # None /\ rq.user_query # " "}

\* Request threads are interchangeable: they are numbered in the order in
\* which they enter process(), and each serves one request.
Entered(t) == pc[t] = "idle" /\ \A u \in Callers : u < t => pc[u] # "idle"

NextConc ==
    \/ \E t \in Callers : \E rq \in RestRequests : Entered(t) /\ Start(t, rq)
    \/ \E t \in Callers : CreateRead(t)
    \/ \E t \in Callers : CreateWrite(t)
    \/ \E t \in Callers : Invoke(t)
    \/ \E t \in Callers : \E e \in Env(cur[t]) \ Stubs : Return(t, e)
    \/ \E t \in Callers : Complete(t)
    \/ \E t \in Callers : CompleteRead(t)
    \/ \E t \in Callers : CompleteWrite(t)

SpecConc == Init /\ [][NextConc]_vars

-----------------------------------------------------------------------------
(* A client of the agents: execute() and reset() called directly *)

\* A dict with or without image and question, a dict whose report has no
\* text, and an object that is no dict.
AgentInputs ==
    {[shape |-> "dict", image |-> "img", question |-> "q", report |-> "text",
      task |-> "qa"],
     [shape |-> "dict", image |-> None, question |-> None, report |-> "text",
      task |-> "qa"],
     [shape |-> "dict", image |-> "img", question |-> "q", report |-> "",
      task |-> "qa"],
     [shape |-> "other", image |-> None, question |-> None, report |-> "",
      task |-> "qa"]}

ExecuteCall(s) ==
    /\ direct = None
    /\ executes < MaxExecutes
    /\ execute_begin(s)
    /\ direct' = s
    /\ executes' = executes + 1
    /\ UNCHANGED <<trackerVars, pc, localVars, observerVars, pureVars>>

\* The client keeps what execute() returned in results[Caller].
ExecuteReturn(input, e) ==
    /\ direct # None
    /\ LET r == execute_result(direct, process(direct, input, e))
       IN /\ execute_end(direct, r)
          /\ results' = [results EXCEPT ![Caller][direct] = r]
    /\ direct' = None
    /\ UNCHANGED <<trackerVars, pc, request, workflow_id, cur, calls, raised,
                   reg, outcome, executes, observerVars, pureVars>>

Reset(s) ==
    /\ direct = None
    /\ reset(s)
    /\ UNCHANGED <<trackerVars, pc, localVars, clientVars>>

NextAgent ==
    \/ \E s \in Stages : ExecuteCall(s)
    \/ \E input \in AgentInputs : \E e \in Env(direct) : ExecuteReturn(input, e)
    \/ \E s \in Stages : Reset(s)

SpecAgent == Init /\ [][NextAgent]_vars

-----------------------------------------------------------------------------
(* A client of the tracker: create_workflow() and complete_workflow() called *)
(* one after another                                                         *)

\* Number of create_workflow() calls, and of complete_workflow() calls on
\* existing records.
MaxWorkflows == 3
MaxCompletions == 2

\* (mutant) the new record is not counted
create_workflow_uncounted ==
    /\ workflows' = Append(workflows, NewWorkflow(Caller))
    /\ UNCHANGED statistics

\* create_workflow(), lines 30-38, as one step.
create_workflow ==
    /\ workflows' = Append(workflows, NewWorkflow(Caller))
    /\ statistics' = Stored("total", Stat("total") + 1)

\* complete_workflow(), lines 74-80, as one step.
complete_workflow(id, st, error) ==
    IF id \in 1..Len(workflows)
    THEN /\ workflows' = [workflows EXCEPT ![id] = Completed(@, st, error)]
         /\ statistics' = Stored(st, Stat(st) + 1)
    ELSE UNCHANGED trackerVars

Completions == Stat("completed") + Stat("success") + Stat("error")

TrackerCreate ==
    /\ Len(workflows) < MaxWorkflows
    /\ create_workflow
    /\ ret' = <<FreshId>>
    /\ last_op' = <<"create_workflow", None>>
    /\ UNCHANGED <<agentVars, pc, localVars, direct, executes, log, snapshot,
                   arg>>

TrackerComplete(id, st, error) ==
    /\ Completions < MaxCompletions
    /\ complete_workflow(id, st, error)
    /\ ret' = <<>>
    /\ last_op' = <<"complete_workflow", id>>
    /\ UNCHANGED <<agentVars, pc, localVars, direct, executes, log, snapshot,
                   arg>>

NextTracker ==
    \/ TrackerCreate
    \/ \E id \in 1..(MaxWorkflows + 1) :
          \E st \in {"completed", "success", "error"} :
             \E error \in {None, "", "boom"} : TrackerComplete(id, st, error)

SpecTracker == Init /\ [][NextTracker]_vars

-----------------------------------------------------------------------------
(* A client of one agent: a long run of execute(), reset() and get_status() *)

\* Number of execute() calls the client makes.
MaxCalls == 6

\* The agent, the input it is given, and what its process() may do.
ClientAgent == "validation"

ClientInput == [shape |-> "dict", image |-> "img", question |-> "q",
                report |-> "text", task |-> "qa"]

ClientEnv == {"ok", "raises", "stub_mapping"}

ClientExecute(s) ==
    /\ direct = None
    /\ executes < MaxCalls
    /\ execute_begin(s)
    /\ direct' = s
    /\ executes' = executes + 1
    /\ snapshot' = <<>>
    /\ last_op' = <<"execute", s>>
    /\ UNCHANGED <<trackerVars, pc, localVars, log, pureVars>>

ClientReturn(e) ==
    /\ direct # None
    /\ LET r == execute_result(direct, process(direct, ClientInput, e))
       IN /\ execute_end(direct, r)
          /\ log' = [log EXCEPT ![direct] = Append(@, r.status)]
    /\ direct' = None
    /\ UNCHANGED <<trackerVars, pc, localVars, executes, snapshot, last_op,
                   pureVars>>

ClientReset(s) ==
    /\ direct = None
    /\ reset(s)
    /\ log' = [log EXCEPT ![s] = <<>>]
    /\ snapshot' = <<>>
    /\ last_op' = <<"reset", s>>
    /\ UNCHANGED <<trackerVars, pc, localVars, direct, executes, pureVars>>

ClientStatus(s) ==
    /\ direct = None
    /\ snapshot' = <<get_status(s)>>
    /\ status' = [status EXCEPT ![s] = get_status_leaves(s).status]
    /\ last_error' = [last_error EXCEPT ![s] = get_status_leaves(s).last_error]
    /\ processing_history' =
           [processing_history EXCEPT
               ![s] = get_status_leaves(s).processing_history]
    /\ last_op' = <<"get_status", s>>
    /\ UNCHANGED <<trackerVars, name, config, pc, localVars, direct, executes,
                   log, pureVars>>

NextClient ==
    \/ ClientExecute(ClientAgent)
    \/ \E e \in ClientEnv : ClientReturn(e)
    \/ ClientReset(ClientAgent)
    \/ ClientStatus(ClientAgent)

SpecClient == Init /\ [][NextClient]_vars

-----------------------------------------------------------------------------
(* validate() called on its own, on an output and a list of required keys *)

\* Longest list of required keys.
MaxKeys == 6

KeyNames == <<"k1", "k2", "k3", "k4", "k5", "k6", "k7", "k8">>

Keys == {KeyNames[i] : i \in 1..MaxKeys}

Reverse(q) == [i \in 1..Len(q) |-> q[Len(q) + 1 - i]]

\* The declared lists: the first n keys, in either order.
RequiredLists ==
    {SubSeq(KeyNames, 1, n) : n \in 0..MaxKeys}
        \cup {Reverse(SubSeq(KeyNames, 1, n)) : n \in 0..MaxKeys}

ValidateArgs ==
    [required : RequiredLists,
     output : {ProcOut(None, shape, ks, "stub", FALSE) :
                  shape \in {"dict", "mapping"}, ks \in SUBSET Keys}]

InitValidate ==
    /\ Constructed
    /\ arg \in ValidateArgs
    /\ ret = <<>>

CallValidate ==
    /\ ret = <<>>
    /\ ret' = <<validate_keys(arg.required, arg.output)>>
    /\ UNCHANGED <<trackerVars, agentVars, pc, localVars, direct, executes,
                   observerVars, arg>>

NextValidate == CallValidate

SpecValidate == InitValidate /\ [][NextValidate]_vars

-----------------------------------------------------------------------------
(* process() of the validation stage called on its own, on a report and a   *)
(* list of labels                                                           *)

\* Longest list of labels.
MaxLabels == 3

LabelSet == {<<"a">>, <<"A">>, <<"b">>, <<"a", "b">>, <<"a", " ", "b">>}

LabelLists == UNION {[1..n -> LabelSet] : n \in 0..MaxLabels}

Reports == [findings : {<<>>, <<"a">>, <<"B">>},
            impression : {<<>>, <<"b">>, <<"A">>}]

InitOmission ==
    /\ Constructed
    /\ arg \in [report : Reports, labels : LabelLists,
                 verdict : {"ok", "rejects"}]
    /\ ret = <<>>

CallValidation ==
    /\ ret = <<>>
    /\ ret' = <<ValidationOutput(arg.report, arg.labels, arg.verdict)>>
    /\ UNCHANGED <<trackerVars, agentVars, pc, localVars, direct, executes,
                   observerVars, arg>>

NextOmission == CallValidation

SpecOmission == InitOmission /\ [][NextOmission]_vars

\* The same call on long lists of labels: any of the first MaxOmissions
\* letters, each a label of its own, against a report that names the first
\* letter or none.
MaxOmissions == 12

\* The members of the set of places S, in rising order.
RECURSIVE Ascending(_)
Ascending(S) ==
    IF S = {} THEN <<>>
    ELSE LET m == CHOOSE k \in S : \A j \in S : j <= k
         IN Append(Ascending(S \ {m}), m)

LetterLists ==
    {[i \in DOMAIN Ascending(S) |-> <<LowerCase[Ascending(S)[i]]>>] :
        S \in SUBSET (1..MaxOmissions)}

InitOmissionMany ==
    /\ Constructed
    /\ arg \in [report : [findings : {<<>>, <<"A">>}, impression : {<<>>}],
                 labels : LetterLists,
                 verdict : {"ok"}]
    /\ ret = <<>>

SpecOmissionMany == InitOmissionMany /\ [][NextOmission]_vars

-----------------------------------------------------------------------------
(* Label normaliser: normalize_label, normalize_labels and                  *)
(* extract_anatomical_labels of utils/label_extraction.py                   *)

\* Longest label, in characters.
MaxLabelLen == 4

Digits == {"0", "1", "2", "3", "4", "5", "6", "7", "8", "9"}

\* What \s and str.strip() take for white space, among the characters used.
Whitespace == {" ", "\t"}

\* The characters that [^a-z0-9_\-\s] leaves in place (line 105).
Kept == {LowerCase[k] : k \in DOMAIN LowerCase} \cup Digits \cup {"_", "-"}
            \cup Whitespace

RECURSIVE LStrip(_, _)
LStrip(str, chars) ==
    IF str # <<>> /\ Head(str) \in chars THEN LStrip(Tail(str), chars)
    ELSE str

RECURSIVE RStrip(_, _)
RStrip(str, chars) ==
    IF str # <<>> /\ str[Len(str)] \in chars
    THEN RStrip(SubSeq(str, 1, Len(str) - 1), chars)
    ELSE str

\* str.strip(chars)
Strip(str, chars) == RStrip(LStrip(str, chars), chars)

\* re.sub(r'[chars]+', '_', str)
RECURSIVE SubRuns(_, _)
SubRuns(str, chars) ==
    IF str = <<>> THEN <<>>
    ELSE IF Head(str) \in chars
         THEN <<"_">> \o SubRuns(LStrip(str, chars), chars)
         ELSE <<Head(str)>> \o SubRuns(Tail(str), chars)

\* lines 102-108
Underscored(label) ==
    SubRuns(SelectSeq(Strip(Lower(label), Whitespace), LAMBDA c : c \in Kept),
            Whitespace)

\* (mutant) runs of underscores are left as they are
normalize_label_keeps_runs(label) == Strip(Underscored(label), {"_"})

normalize_label(label) == Strip(SubRuns(Underscored(label), {"_"}), {"_"})

normalize_labels(labels) ==
    [i \in 1..Len(labels) |-> normalize_label(labels[i])]

ANATOMICAL_LABEL_MAP ==
    <<[standard_label |-> <<"l", "u", "n", "g">>,
       variants |-> {<<"l", "u", "n", "g">>,
                     <<"l", "u", "n", "g", "s">>,
                     <<"p", "u", "l", "m", "o", "n", "a", "r", "y">>,
                     <<"p", "n", "e", "u", "m", "o", "n", "i", "a">>}],
      [standard_label |-> <<"h", "e", "a", "r", "t">>,
       variants |-> {<<"h", "e", "a", "r", "t">>,
                     <<"c", "a", "r", "d", "i", "a", "c">>,
                     <<"m", "y", "o", "c", "a", "r", "d", "i", "u", "m">>}],
      [standard_label |-> <<"r", "i", "b">>,
       variants |-> {<<"r", "i", "b">>,
                     <<"r", "i", "b", "s">>,
                     <<"r", "i", "b", "c", "a", "g", "e">>}],
      [standard_label |-> <<"c", "h", "e", "s", "t">>,
       variants |-> {<<"c", "h", "e", "s", "t">>,
                     <<"t", "h", "o", "r", "a", "x">>,
                     <<"t", "h", "o", "r", "a", "c", "i", "c">>}],
      [standard_label |-> <<"l", "i", "v", "e", "r">>,
       variants |-> {<<"l", "i", "v", "e", "r">>,
                     <<"h", "e", "p", "a", "t", "i", "c">>}],
      [standard_label |-> <<"s", "p", "l", "e", "e", "n">>,
       variants |-> {<<"s", "p", "l", "e", "e", "n">>,
                     <<"s", "p", "l", "e", "n", "i", "c">>}],
      [standard_label |-> <<"k", "i", "d", "n", "e", "y">>,
       variants |-> {<<"k", "i", "d", "n", "e", "y">>,
                     <<"r", "e", "n", "a", "l">>,
                     <<"k", "i", "d", "n", "e", "y", "s">>}],
      [standard_label |-> <<"k", "i", "d", "n", "e", "y", "_", "r", "i", "g", "h", "t">>,
       variants |-> {<<"k", "i", "d", "n", "e", "y", "_", "r", "i", "g", "h", "t">>,
                     <<"r", "i", "g", "h", "t", "_", "k", "i", "d", "n", "e", "y">>,
                     <<"r", "i", "g", "h", "t", " ", "r", "e", "n", "a", "l">>}],
      [standard_label |-> <<"k", "i", "d", "n", "e", "y", "_", "l", "e", "f", "t">>,
       variants |-> {<<"k", "i", "d", "n", "e", "y", "_", "l", "e", "f", "t">>,
                     <<"l", "e", "f", "t", "_", "k", "i", "d", "n", "e", "y">>,
                     <<"l", "e", "f", "t", " ", "r", "e", "n", "a", "l">>}],
      [standard_label |-> <<"p", "a", "n", "c", "r", "e", "a", "s">>,
       variants |-> {<<"p", "a", "n", "c", "r", "e", "a", "s">>,
                     <<"p", "a", "n", "c", "r", "e", "a", "t", "i", "c">>}],
      [standard_label |-> <<"s", "t", "o", "m", "a", "c", "h">>,
       variants |-> {<<"s", "t", "o", "m", "a", "c", "h">>,
                     <<"g", "a", "s", "t", "r", "i", "c">>}],
      [standard_label |-> <<"i", "n", "t", "e", "s", "t", "i", "n", "e">>,
       variants |-> {<<"i", "n", "t", "e", "s", "t", "i", "n", "e">>,
                     <<"b", "o", "w", "e", "l">>,
                     <<"i", "n", "t", "e", "s", "t", "i", "n", "a", "l">>}],
      [standard_label |-> <<"b", "l", "a", "d", "d", "e", "r">>,
       variants |-> {<<"b", "l", "a", "d", "d", "e", "r">>,
                     <<"u", "r", "i", "n", "a", "r", "y">>}],
      [standard_label |-> <<"u", "t", "e", "r", "u", "s">>,
       variants |-> {<<"u", "t", "e", "r", "u", "s">>,
                     <<"u", "t", "e", "r", "i", "n", "e">>}],
      [standard_label |-> <<"p", "r", "o", "s", "t", "a", "t", "e">>,
       variants |-> {<<"p", "r", "o", "s", "t", "a", "t", "e">>,
                     <<"p", "r", "o", "s", "t", "a", "t", "i", "c">>}],
      [standard_label |-> <<"b", "r", "a", "i", "n">>,
       variants |-> {<<"b", "r", "a", "i", "n">>,
                     <<"c", "e", "r", "e", "b", "r", "a", "l">>,
                     <<"c", "r", "a", "n", "i", "a", "l">>}],
      [standard_label |-> <<"s", "k", "u", "l", "l">>,
       variants |-> {<<"s", "k", "u", "l", "l">>,
                     <<"c", "r", "a", "n", "i", "u", "m">>}],
      [standard_label |-> <<"k", "n", "e", "e">>,
       variants |-> {<<"k", "n", "e", "e">>,
                     <<"k", "n", "e", "e", "s">>}],
      [standard_label |-> <<"h", "i", "p">>,
       variants |-> {<<"h", "i", "p">>,
                     <<"h", "i", "p", "s">>,
                     <<"p", "e", "l", "v", "i", "c">>}],
      [standard_label |-> <<"w", "r", "i", "s", "t">>,
       variants |-> {<<"w", "r", "i", "s", "t">>,
                     <<"w", "r", "i", "s", "t", "s">>}],
      [standard_label |-> <<"s", "h", "o", "u", "l", "d", "e", "r">>,
       variants |-> {<<"s", "h", "o", "u", "l", "d", "e", "r">>,
                     <<"s", "h", "o", "u", "l", "d", "e", "r", "s">>}]>>

\* line 63, for the entry at place k of the table
Matches(k, label) ==
    \E variant \in ANATOMICAL_LABEL_MAP[k].variants : Contains(label, variant)

\* (mutant) the last matching entry of the table is taken
LastMatch(label) ==
    CHOOSE k \in DOMAIN ANATOMICAL_LABEL_MAP :
        /\ Matches(k, label)
        /\ \A j \in DOMAIN ANATOMICAL_LABEL_MAP : Matches(j, label) => j <= k

\* The entry at which the loop of lines 62-67 breaks.
FirstMatch(label) ==
    CHOOSE k \in DOMAIN ANATOMICAL_LABEL_MAP :
        /\ Matches(k, label)
        /\ \A j \in 1..(k - 1) : ~Matches(j, label)

InList(x, list) == \E i \in DOMAIN list : list[i] = x

AppendNew(list, x) == IF InList(x, list) THEN list ELSE Append(list, x)

\* `normalized` after the loop over the first i labels (lines 59-73).
RECURSIVE ExtractLoop(_, _)
ExtractLoop(labels_lower, i) ==
    IF i = 0 THEN <<>>
    ELSE LET normalized == ExtractLoop(labels_lower, i - 1)
             label == labels_lower[i]
         IN IF \E k \in DOMAIN ANATOMICAL_LABEL_MAP : Matches(k, label)
            THEN AppendNew(normalized,
                     ANATOMICAL_LABEL_MAP[FirstMatch(label)].standard_label)
            ELSE AppendNew(normalized, normalize_label(label))

extract_anatomical_labels(labels) ==
    ExtractLoop([i \in 1..Len(labels) |-> Lower(labels[i])], Len(labels))

\* normalize_label() called on its own, on every string of a small alphabet
LabelAlphabet == {"a", "A", "1", "_", "-", " ", "\t", "!"}

InitNormalize ==
    /\ Constructed
    /\ arg \in UNION {[1..n -> LabelAlphabet] : n \in 0..MaxLabelLen}
    /\ ret = <<>>

CallNormalize ==
    /\ ret = <<>>
    /\ ret' = <<normalize_label(arg)>>
    /\ UNCHANGED <<trackerVars, agentVars, pc, localVars, direct, executes,
                   observerVars, arg>>

NextNormalize == CallNormalize

SpecNormalize == InitNormalize /\ [][NextNormalize]_vars

\* The sequences of at most n members of S
SeqsUpTo(S, n) == UNION {[1..k -> S] : k \in 0..n}

\* extract_anatomical_labels() called on its own, on lists of the labels
\* "left lung", "Pulmonary", "right_kidney", "renal hepatic", "aorta!",
\* "Aorta" and "lungs"
RawLabels ==
    {<<"l", "e", "f", "t", " ", "l", "u", "n", "g">>,
     <<"P", "u", "l", "m", "o", "n", "a", "r", "y">>,
     <<"r", "i", "g", "h", "t", "_", "k", "i", "d", "n", "e", "y">>,
     <<"r", "e", "n", "a", "l", " ", "h", "e", "p", "a", "t", "i", "c">>,
     <<"a", "o", "r", "t", "a", "!">>,
     <<"A", "o", "r", "t", "a">>,
     <<"l", "u", "n", "g", "s">>}

InitAnatomical ==
    /\ Constructed
    /\ arg \in SeqsUpTo(RawLabels, MaxLabels)
    /\ ret = <<>>

CallAnatomical ==
    /\ ret = <<>>
    /\ ret' = <<extract_anatomical_labels(arg)>>
    /\ UNCHANGED <<trackerVars, agentVars, pc, localVars, direct, executes,
                   observerVars, arg>>

NextAnatomical == CallAnatomical

SpecAnatomical == InitAnatomical /\ [][NextAnatomical]_vars

-----------------------------------------------------------------------------
(* Confidence filter: SegmentationAgent._filter_by_confidence called on its *)
(* own, on three sequences and a threshold                                  *)

\* Longest sequence of masks, of labels and of confidences.
MaxDetections == 3

\* c >= threshold on Python floats
GreaterEq(a, b) == ~IsNegative(Dbl(a.n - b.n, a.d - b.d))

\* 0.3, 0.5 (the default threshold) and 0.9
ConfidenceValues == {Dbl(3, -1), Dbl(5, -1), Dbl(9, -1)}
Thresholds == {Dbl(5, -1), Dbl(9, -1)}

\* zip() stops at the end of the shortest of its arguments.
ZipLen(masks, labels, confidences) ==
    CHOOSE n \in {Len(masks), Len(labels), Len(confidences)} :
        n <= Len(masks) /\ n <= Len(labels) /\ n <= Len(confidences)

\* (mutant) an entry equal to the threshold is dropped
KeepsAbove(c, threshold) == GreaterEq(c, threshold) /\ c # threshold

\* line 209
Keeps(c, threshold) == GreaterEq(c, threshold)

\* The three lists after the loop over the first i zipped entries.
RECURSIVE FilterLoop(_, _, _, _, _)
FilterLoop(masks, labels, confidences, threshold, i) ==
    IF i = 0 THEN [masks |-> <<>>, labels |-> <<>>, confidences |-> <<>>]
    ELSE LET before == FilterLoop(masks, labels, confidences, threshold, i - 1)
         IN IF Keeps(confidences[i], threshold)
            THEN [masks |-> Append(before.masks, masks[i]),
                  labels |-> Append(before.labels, labels[i]),
                  confidences |-> Append(before.confidences, confidences[i])]
            ELSE before

\* exc: the exception the call raises, None when it returns.
_filter_by_confidence(masks, labels, confidences, threshold) ==
    LET filtered == FilterLoop(masks, labels, confidences, threshold,
                               ZipLen(masks, labels, confidences))
    IN [exc |-> None, masks |-> filtered.masks, labels |-> filtered.labels,
        confidences |-> filtered.confidences]

\* Masks are told apart by their position in the model's output.
MaskLists == {[i \in 1..n |-> <<"mask", i>>] : n \in 0..MaxDetections}

FilterArgs ==
    [masks : MaskLists,
     labels : SeqsUpTo({<<"a">>, <<"b">>}, MaxDetections),
     confidences : SeqsUpTo(ConfidenceValues, MaxDetections),
     threshold : Thresholds]

InitFilter ==
    /\ Constructed
    /\ arg \in FilterArgs
    /\ ret = <<>>

CallFilter ==
    /\ ret = <<>>
    /\ ret' = <<_filter_by_confidence(arg.masks, arg.labels, arg.confidences,
                                      arg.threshold)>>
    /\ UNCHANGED <<trackerVars, agentVars, pc, localVars, direct, executes,
                   observerVars, arg>>

NextFilter == CallFilter

SpecFilter == InitFilter /\ [][NextFilter]_vars

-----------------------------------------------------------------------------
(* The model path of the segmentation stage: what process() makes of the    *)
(* model's detections (lines 148-170)                                       *)

\* segmentation_results holds the model's masks, labels and confidences;
\* threshold is the agent's confidence_threshold.
ModelPath(segmentation_results, threshold) ==
    LET labels == normalize_labels(segmentation_results.labels)
        anatomical_labels == extract_anatomical_labels(labels)
        filtered == _filter_by_confidence(segmentation_results.masks,
                                          anatomical_labels,
                                          segmentation_results.confidences,
                                          threshold)
    IN [masks |-> filtered.masks, labels |-> filtered.labels,
        confidences |-> filtered.confidences]

\* The model reports one mask, one label and one confidence per detection.
Detections ==
    UNION {[masks : {[i \in 1..n |-> <<"mask", i>>]},
            labels : [1..n -> RawLabels],
            confidences : [1..n -> ConfidenceValues]] : n \in 0..MaxDetections}

InitSegment ==
    /\ Constructed
    /\ arg \in [segmentation_results : Detections, threshold : Thresholds]
    /\ ret = <<>>

CallSegment ==
    /\ ret = <<>>
    /\ ret' = <<ModelPath(arg.segmentation_results, arg.threshold)>>
    /\ UNCHANGED <<trackerVars, agentVars, pc, localVars, direct, executes,
                   observerVars, arg>>

NextSegment == CallSegment

SpecSegment == InitSegment /\ [][NextSegment]_vars

-----------------------------------------------------------------------------
(* Properties *)

Record(t) == workflows[workflow_id[t]]

Closing == {"complete", "complete_read", "complete_write", "done"}

LastCall(t) == calls[t][Len(calls[t])]

\* The stages that abort a request, and the stages a request asks for.
Mandatory == {"segmentation", "routing", "report"}

Requested(s, rq) ==
    /\ s = "reasoning" => rq.enable_reasoning
    /\ s = "validation" => rq.enable_validation

RequestedStages(rq) == SelectSeq(StageOrder, LAMBDA s : Requested(s, rq))

\* C1: when the segmentation, routing or report stage returns a status other
\* than 'success', no later stage is invoked, the request's record is closed
\* as 'error' with the message of the raised failure, and process() raises.
C1_FatalStageAborts ==
    \A t \in Callers : \A s \in Mandatory :
        results[t][s].status \in {"error", "validation_failed"} =>
            /\ LastCall(t) = s
            /\ pc[t] \in Closing
            /\ raised[t] = FailureMessage(s)
            /\ pc[t] \in Closing \ {"complete"} =>
                   /\ Record(t).status = "error"
                   /\ Record(t).error = FailureMessage(s)
            /\ pc[t] = "done" => outcome[t] = "raised"

C1_Witness ==
    \E t \in Callers :
        /\ pc[t] = "done"
        /\ results[t]["report"].status = "validation_failed"
        /\ Record(t).error = "Report generation failed"
        /\ outcome[t] = "raised"

\* C2: once segmentation, routing and report have reached 'success', whatever
\* status reasoning and validation return, process() returns a result and the
\* record is closed as 'success'.
C2_OptionalStagesNeverAbort ==
    \A t \in Callers :
        (/\ \A s \in Mandatory : results[t][s].status = "success"
         /\ pc[t] \in Closing)
        => /\ raised[t] = None
           /\ pc[t] \in Closing \ {"complete"} => Record(t).status = "success"
           /\ pc[t] = "done" => outcome[t] = "returned"

C2_Witness ==
    \E t \in Callers :
        /\ pc[t] = "done"
        /\ results[t]["reasoning"].status = "error"
        /\ results[t]["validation"].status = "validation_failed"
        /\ outcome[t] = "returned"
        /\ Record(t).status = "success"

\* C3: when process() raises, execute() returns a dict whose only key is the
\* metadata block, with status 'error', the error message and the trace, and
\* leaves the agent in status 'error' with the message in last_error.
C3_FaultIsCaptured ==
    \A s \in Stages :
        LET r == results[Caller][s] IN
        r.faulted =>
            /\ r.keys = {"_metadata"}
            /\ r.status = "error"
            /\ r.error # None
            /\ {"status", "error", "error_trace"} \subseteq r.meta
            /\ status[s] \notin {"processing", "initialized"} =>
                   /\ status[s] = "error"
                   /\ last_error[s] = r.error

C3_Witness ==
    \E s \in Stages :
        /\ results[Caller][s].faulted
        /\ status[s] = "error"
        /\ last_error[s] = "validator fault"

\* C4: every call of process() creates exactly one record, in status
\* 'created'; when the call has ended the record has been mutated exactly
\* once, completed_at is set, and it is 'success' iff the call returned and
\* 'error' with the message iff it raised; no record of an ended call is
\* left in 'created'.
C4_OneRecordClosedOnce ==
    /\ \A t \in Callers :
          pc[t] # "idle" =>
              /\ workflow_id[t] = Len(workflows)
              /\ Record(t).owner = t
    /\ \A t \in Callers :
          pc[t] \in {"create_read", "create_write", "call", "exec", "complete"} =>
              /\ Record(t).status = "created"
              /\ Record(t).completed_at = None
              /\ Record(t).error = None
              /\ Record(t).mutations = 0
    /\ \A t \in Callers :
          pc[t] = "done" =>
              /\ Record(t).mutations = 1
              /\ Record(t).completed_at # None
              /\ Record(t).status \in {"success", "error"}
              /\ Record(t).status = "success" <=> outcome[t] = "returned"
              /\ (Record(t).status = "error" /\ Record(t).error # None)
                     <=> outcome[t] = "raised"
    /\ \A id \in 1..Len(workflows) :
          workflows[id].status = "created" =>
              /\ id = Len(workflows)
              /\ pc[workflows[id].owner] \notin {"idle", "done"}

C4_Witness ==
    \E t \in Callers :
        /\ pc[t] = "done"
        /\ outcome[t] = "raised"
        /\ Record(t).status = "error"
        /\ Record(t).error = "Segmentation failed"
        /\ Record(t).completed_at # None

\* C5: whenever the segmentation model call or the report generation faults
\* during a request, process() raises and the record becomes 'error'; no
\* result built from a fallback is returned.
C5_StageFaultSurfaces ==
    \A t \in Callers :
        (/\ pc[t] = "done"
         /\ \E s \in {"segmentation", "report"} : results[t][s].swallowed)
        => /\ outcome[t] = "raised"
           /\ Record(t).status = "error"

\* C6: within one call the stages are invoked in the fixed order, each at
\* most once, each after its predecessor's execute() has returned, and an
\* optional stage only when it is enabled.
C6_SequentialStages ==
    \A t \in Callers :
        /\ \A i, j \in 1..Len(calls[t]) :
              i < j => StageIndex(calls[t][i]) < StageIndex(calls[t][j])
        /\ \A i \in 1..Len(calls[t]) :
              /\ Requested(calls[t][i], request[t])
              /\ i <= Len(RequestedStages(request[t]))
              /\ calls[t][i] = RequestedStages(request[t])[i]
              /\ results[t][calls[t][i]].status = "none"
                     <=> (i = Len(calls[t]) /\ pc[t] = "exec")
        /\ \A s \in Stages :
              results[t][s].status # "none" =>
                  \E i \in 1..Len(calls[t]) : calls[t][i] = s
        /\ (pc[t] = "done" /\ outcome[t] = "returned") =>
              calls[t] = RequestedStages(request[t])

C6_Witness ==
    \E t \in Callers :
        /\ pc[t] = "done"
        /\ outcome[t] = "returned"
        /\ ~request[t].enable_reasoning
        /\ request[t].enable_validation
        /\ calls[t] = <<"segmentation", "routing", "report", "validation">>

\* The status changes of all agents in one step are among `allowed`, or lead
\* to 'initialized'.
StatusSteps(allowed) ==
    \A s \in Stages :
        status'[s] # status[s] =>
            \/ <<status[s], status'[s]>> \in allowed
            \/ status'[s] = "initialized"

\* C7 (as claimed): an agent's status changes only initialized -> processing,
\* processing -> completed and processing -> error, and by reset() back to
\* 'initialized'.
C7_StatusLifecycle ==
    [][StatusSteps({<<"initialized", "processing">>,
                    <<"processing", "completed">>,
                    <<"processing", "error">>})]_vars

\* C7 (amended): execute() enters 'processing' from 'initialized',
\* 'completed' or 'error' and leaves it for 'completed' or 'error'; the only
\* other change is reset() back to 'initialized'.
C7_StatusLifecycleReentrant ==
    [][StatusSteps({<<"initialized", "processing">>,
                    <<"completed", "processing">>,
                    <<"error", "processing">>,
                    <<"processing", "completed">>,
                    <<"processing", "error">>})]_vars

C7_Witness ==
    \E s \in Stages :
        /\ status[s] = "processing"
        /\ Len(processing_history[s]) > 0
        /\ processing_history[s][Len(processing_history[s])].status = "success"

\* C8: the reported active_workflows equals the number of records still
\* 'created'; a record closed as 'success' is not counted as active.
C8_ActiveCountsCreated ==
    get_statistics.active_workflows =
        Cardinality({id \in 1..Len(workflows) : workflows[id].status = "created"})

AllCreated == \A t \in Callers : pc[t] \notin {"idle", "create_read", "create_write"}

AllDone == \A t \in Callers : pc[t] = "done"

\* C9: once the concurrent create_workflow() calls have all finished, every
\* record is present and 'total' equals the number of calls; once the
\* complete_workflow() calls have all finished, each per-status counter
\* equals the number of calls made with that status.
C9_CountersSurviveConcurrency ==
    /\ AllCreated =>
          /\ Len(workflows) = NumCallers
          /\ Stat("total") = NumCallers
    /\ AllDone =>
          \A st \in {"success", "error"} :
              Stat(st) =
                  Cardinality({t \in Callers : CompletionStatus(t) = st})

\* C10: two requests are never inside execute() of the same agent at the
\* same time.
C10_ExecuteIsExclusive ==
    \A t, u \in Callers :
        (t # u /\ pc[t] = "exec" /\ pc[u] = "exec") => cur[t] # cur[u]

\* C11: whenever process() returns an output that does not pass validate()
\* (a required key is missing, or the output is no dict), execute() returns
\* with metadata status 'validation_failed' and a validation report that has
\* is_valid false and at least one error.
C11_ValidationFailureIsReported ==
    \A s \in Stages :
        LET r == results[Caller][s] IN
        r.invalid =>
            /\ r.status = "validation_failed"
            /\ "validation" \in r.meta
            /\ Len(r.validation) = 1
            /\ ~r.validation[1].is_valid
            /\ Len(r.validation[1].errors) > 0

\* The double a decimal literal k/10 denotes, k in 0..10.
DecimalOffsets == <<0, 0, -1, 0, -1, -2, -3, 0, -1, -2>>

Decimal(k) == IF k = 0 THEN Zero ELSE Dbl(k, DecimalOffsets[k])

Missing(required, out) == SelectSeq(required, LAMBDA k : k \notin out.keys)

\* C12: for a dict output, validate() returns is_valid true with confidence
\* 1.0 when no required key is missing; otherwise is_valid false, the missing
\* keys as errors in declared order, and confidence 1.0 - 0.2 * (number of
\* missing keys), 0.0 from five missing keys on.
C12_ValidateConfidence ==
    (ret # <<>> /\ arg.output.shape = "dict") =>
        LET k == Len(Missing(arg.required, arg.output))
            v == ret[1]
        IN IF k = 0
           THEN v.is_valid /\ v.confidence = One
           ELSE /\ ~v.is_valid
                /\ v.errors = Missing(arg.required, arg.output)
                /\ v.confidence = Decimal(IF k < 5 THEN 10 - 2 * k ELSE 0)

\* The last k entries of the sequence h, in order.
Last(h, k) == [i \in 1..k |-> h[Len(h) - k + i]]

\* C13: after n execute() calls on an agent since its construction or last
\* reset(), whatever their outcomes, its history has n entries, the i-th an
\* 'error' entry exactly when the i-th call returned status 'error';
\* get_status() reports processing_count = n and as recent_history the last
\* min(n, 5) entries in order.
C13_HistoryCountsInvocations ==
    \A s \in Stages :
        LET n == Len(log[s])
            h == processing_history[s]
        IN /\ Len(h) = n
           /\ \A i \in 1..n : (h[i].status = "error") <=> (log[s][i] = "error")
           /\ get_status(s).processing_count = n
           /\ get_status(s).recent_history = Last(h, IF n < 5 THEN n ELSE 5)
           /\ last_op = <<"get_status", s>> =>
                  /\ snapshot[1].processing_count = n
                  /\ snapshot[1].recent_history = Last(h, IF n < 5 THEN n ELSE 5)

C13_Witness ==
    \E s \in Stages :
        /\ last_op = <<"get_status", s>>
        /\ Len(log[s]) = 6
        /\ {log[s][i] : i \in 1..6} = {"success", "validation_failed", "error"}
        /\ snapshot[1].processing_count = 6
        /\ Len(snapshot[1].recent_history) = 5

\* C14: a reset() step leaves the agent 'initialized' with last_error None
\* and an empty history, and its name and config as they were.
C14_ResetClearsState ==
    [][\A s \in Stages :
          last_op' = <<"reset", s>> =>
              /\ status'[s] = "initialized"
              /\ last_error'[s] = None
              /\ processing_history'[s] = <<>>
              /\ name'[s] = name[s]
              /\ config'[s] = config[s]]_vars

C14_Witness ==
    \E s \in Stages :
        /\ last_op = <<"reset", s>>
        /\ executes > 1
        /\ status[s] = "initialized"
        /\ last_error[s] = None
        /\ processing_history[s] = <<>>
        /\ config[s] = AgentConfig(s)

\* C15: a get_status() step of the controller, which calls get_status() of
\* every agent, changes no agent's status, last_error or history, no record
\* and no counter, and a call right after it returns the same snapshot.
C15_StatusIsPureRead ==
    [][last_op' = <<"get_status", "controller">> =>
          /\ status' = status
          /\ last_error' = last_error
          /\ processing_history' = processing_history
          /\ workflows' = workflows
          /\ \A k \in {"total", "completed", "success", "error"} :
                 Stat(k)' = Stat(k)
          /\ snapshot' = <<ControllerStatus'>>
          /\ last_op = last_op' => snapshot' = snapshot]_vars

C15_Witness ==
    /\ last_op = <<"get_status", "controller">>
    /\ pc[Caller] = "done"
    /\ snapshot[1].workflows.total = 1
    /\ snapshot[1].agents["report"].status = "error"
    /\ snapshot[1].agents["report"].last_error = last_error["report"]
    /\ snapshot[1].agents["report"].processing_count = 1

\* C16: every create_workflow() step returns an identifier no existing
\* record has, adds exactly one record under it, in status 'created' with
\* completed_at and error None, leaves every existing record as it was, and
\* leaves 'total' equal to the number of records.
C16_CreateAddsOneRecord ==
    [][last_op' = <<"create_workflow", None>> =>
          /\ Len(workflows') = Len(workflows) + 1
          /\ ret'[1] \notin 1..Len(workflows)
          /\ ret'[1] \in 1..Len(workflows')
          /\ workflows'[ret'[1]].status = "created"
          /\ workflows'[ret'[1]].completed_at = None
          /\ workflows'[ret'[1]].error = None
          /\ \A id \in 1..Len(workflows) : workflows'[id] = workflows[id]
          /\ Stat("total")' = Len(workflows')]_vars

C16_Witness ==
    /\ last_op = <<"create_workflow", None>>
    /\ Len(workflows) = 3
    /\ Stat("total") = 3
    /\ workflows[1].status = "error"
    /\ workflows[1].error = "boom"
    /\ workflows[3].status = "created"

Optional == {"reasoning", "validation"}

\* C17 (as claimed): in a returned Pipeline Result the sub-result of an
\* optional stage is non-null only if the stage was enabled and its
\* execution reached 'success'.
C17_SubResultOnlyOnSuccess ==
    \A t \in Callers : \A s \in Optional :
        (outcome[t] = "returned" /\ PipelineResult(t)[s] # NoResult) =>
            /\ Requested(s, request[t])
            /\ PipelineResult(t)[s].status = "success"

\* C17 (amended): in a returned Pipeline Result the sub-result of an optional
\* stage is null exactly when the stage was disabled; when enabled it is what
\* execute() returned, with its metadata block, whatever the status.
C17_SubResultIffEnabled ==
    \A t \in Callers : \A s \in Optional :
        outcome[t] = "returned" =>
            /\ PipelineResult(t)[s] # NoResult <=> Requested(s, request[t])
            /\ PipelineResult(t)[s] # NoResult =>
                   /\ "_metadata" \in PipelineResult(t)[s].keys
                   /\ PipelineResult(t)[s].status
                          \in {"success", "validation_failed", "error"}

C17_Witness ==
    \E t \in Callers :
        /\ outcome[t] = "returned"
        /\ request[t].enable_reasoning
        /\ ~request[t].enable_validation
        /\ PipelineResult(t)["reasoning"].status = "error"
        /\ PipelineResult(t)["reasoning"].keys = {"_metadata"}
        /\ PipelineResult(t)["validation"] = NoResult

\* The inputs the reasoning and report stages are tried on.
StageInputs ==
    [shape : {"dict", "other"}, image : Images, question : Queries,
     report : {"", "text"}, task : {"qa", "explain"}]

\* The internal faults of the reasoning stage the claim lists.
ReasoningFault(input, e) ==
    \/ input.shape # "dict"
    \/ input.question \in {None, " "}
    \/ input.report = ""
    \/ e = "raises"

\* C18: for every input and behaviour of its client, process() of the
\* reasoning stage does not raise, and on a fault it returns the fixed
\* fallback answer with confidence 0.5 (not 0, not 0.9); in a request the
\* stage then reports 'success' and the request returns with its record
\* closed as 'success'.
C18_ReasoningDegrades ==
    /\ \A input \in StageInputs : \A e \in {"ok", "raises"} :
          LET out == ReasoningProcess(input, e) IN
          /\ out.exc = None
          /\ {"answer", "confidence", "reasoning"} \subseteq out.keys
          /\ ReasoningFault(input, e) =>
                 /\ out.body.answer = "Clinical reasoning temporarily unavailable."
                 /\ out.body.confidence = Decimal(5)
                 /\ out.body.confidence \notin {Zero, Decimal(9)}
    /\ \A t \in Callers :
          LET r == results[t]["reasoning"] IN
          (r.status # "none" /\ ~r.stub) =>
              /\ r.status = "success"
              /\ ~r.faulted
              /\ (r.swallowed \/ request[t].user_query \in {None, " "}) =>
                     /\ r.body.answer = "Clinical reasoning temporarily unavailable."
                     /\ r.body.confidence = Decimal(5)
              /\ pc[t] = "done" =>
                     /\ outcome[t] = "returned"
                     /\ Record(t).status = "success"

C18_Witness ==
    \E t \in Callers :
        /\ pc[t] = "done"
        /\ results[t]["reasoning"].swallowed
        /\ results[t]["reasoning"].body.answer
               = "Clinical reasoning temporarily unavailable."
        /\ results[t]["reasoning"].body.confidence = Decimal(5)
        /\ outcome[t] = "returned"
        /\ Record(t).status = "success"

\* C19: for every input and behaviour of the report model, process() of the
\* report stage returns a dict with 'findings' and 'impression' and does not
\* raise; without a dict, without an image or when the model raises it is
\* the fixed fallback pair; every execute() of the stage reports 'success'.
C19_ReportAlwaysStructured ==
    /\ \A input \in StageInputs : \A e \in {"ok", "raises"} :
          LET out == ReportProcess(input, e) IN
          /\ out.exc = None
          /\ out.shape = "dict"
          /\ {"findings", "impression"} \subseteq out.keys
          /\ (input.shape # "dict" \/ input.image = None \/ e = "raises") =>
                 /\ out.body.findings
                        = "Unable to generate findings from the provided image."
                 /\ out.body.impression = "Please review the image manually."
    /\ LET r == results[Caller]["report"] IN
       (r.status # "none" /\ ~r.stub) =>
           /\ r.status = "success"
           /\ ~r.faulted
           /\ {"findings", "impression"} \subseteq r.keys
           /\ r.src = "fallback" => r.body = ReportFallback

C19_Witness ==
    /\ results[Caller]["report"].status = "success"
    /\ results[Caller]["report"].src = "fallback"
    /\ results[Caller]["report"].body = ReportFallback
    /\ status["report"] = "completed"

\* The labels of a call whose lowercase form is no substring of the report
\* text, in label order.
OmittedLabels ==
    SelectSeq(arg.labels,
              LAMBDA l : ~Contains(ReportText(arg.report), Lower(l)))

\* C20: the output of the validation stage has one omission warning per
\* label whose lowercase form is no substring of the lowercased report text,
\* in label order, and no other; its confidence is 1.0 - 0.1 * (number of
\* omitted labels); omissions do not make is_valid false.
C20_OmissionWarnings ==
    ret # <<>> =>
        /\ ret[1].warnings =
               [i \in 1..Len(OmittedLabels) |-> <<"Omission", OmittedLabels[i]>>]
        /\ ret[1].confidence = Decimal(10 - Len(OmittedLabels))
        /\ arg.verdict = "ok" => ret[1].is_valid


\* The call of the confidence filter was given sequences of one length.
EqualLengths ==
    /\ Len(arg.masks) = Len(arg.labels)
    /\ Len(arg.labels) = Len(arg.confidences)

\* C21: a call of the confidence filter on mask, label and confidence
\* sequences whose lengths are not all equal raises an error and returns
\* nothing.
C21_MismatchedLengthsRaise ==
    (ret # <<>> /\ ~EqualLengths) => ret[1].exc # None

\* The positions of the input whose confidence is at least the threshold.
KeptPositions ==
    SelectSeq([i \in 1..Len(arg.confidences) |-> i],
              LAMBDA i : GreaterEq(arg.confidences[i], arg.threshold))

\* C22: on sequences of one length the confidence filter returns, in input
\* order, the mask, the label and the confidence of exactly the positions
\* whose confidence is greater than or equal to the threshold.
C22_FilterKeepsAtOrAboveThreshold ==
    (ret # <<>> /\ EqualLengths) =>
        /\ ret[1].exc = None
        /\ ret[1].masks =
               [j \in 1..Len(KeptPositions) |-> arg.masks[KeptPositions[j]]]
        /\ ret[1].labels =
               [j \in 1..Len(KeptPositions) |-> arg.labels[KeptPositions[j]]]
        /\ ret[1].confidences =
               [j \in 1..Len(KeptPositions) |->
                   arg.confidences[KeptPositions[j]]]

\* A call that kept an entry equal to the threshold after dropping one below.
C22_Witness ==
    /\ ret # <<>>
    /\ EqualLengths
    /\ Len(arg.confidences) = 3
    /\ arg.confidences[1] = Dbl(3, -1)
    /\ arg.confidences[2] = arg.threshold
    /\ ret[1].masks = <<arg.masks[2], arg.masks[3]>>

\* C24: normalize is idempotent, normalize(normalize(x)) = normalize(x), and
\* every output of normalize has only characters of [a-z0-9_-], no white
\* space, no run of two or more underscores and no underscore at either end.
C24_NormalizeIdempotent ==
    ret # <<>> =>
        LET out == ret[1]
        IN /\ normalize_label(out) = out
           /\ \A i \in DOMAIN out : out[i] \in Kept \ Whitespace
           /\ \A i \in 1..(Len(out) - 1) : ~(out[i] = "_" /\ out[i + 1] = "_")
           /\ out # <<>> => (out[1] # "_" /\ out[Len(out)] # "_")

\* A call that lowered a letter, dropped a character and joined white space
\* and an underscore into one underscore.
C24_Witness ==
    /\ arg = <<"A", " ", "_", "a">>
    /\ ret = << <<"a", "_", "a">> >>

\* The places of the table one of whose variants is a substring of text.
MatchingEntries(text) ==
    {k \in DOMAIN ANATOMICAL_LABEL_MAP :
        \E variant \in ANATOMICAL_LABEL_MAP[k].variants :
            Contains(text, variant)}

\* The canonical name of the first entry matching text; the normalized label
\* when no entry matches.
Canonical(text, label) ==
    IF MatchingEntries(text) = {} THEN normalize_label(label)
    ELSE LET first == CHOOSE k \in MatchingEntries(text) :
                          \A j \in MatchingEntries(text) : k <= j
         IN ANATOMICAL_LABEL_MAP[first].standard_label

\* out holds the members of mapped once each, in the order of their first
\* occurrence.
FirstSeenOrder(out, mapped) ==
    LET FirstAt(x) == CHOOSE i \in DOMAIN mapped :
                          mapped[i] = x /\ \A j \in 1..(i - 1) : mapped[j] # x
    IN /\ {out[j] : j \in DOMAIN out} = {mapped[i] : i \in DOMAIN mapped}
       /\ \A j, k \in DOMAIN out : j < k => FirstAt(out[j]) < FirstAt(out[k])

\* C23 as stated: every label is mapped to the canonical name of the first
\* table entry one of whose variants is a substring of the label as given,
\* a label matching no entry passes through normalized, and the results
\* come in first-seen order without duplicates.
C23_FirstMatchOnLabelAsGiven ==
    (ret # <<>> /\ arg \in Seq(RawLabels)) =>
        FirstSeenOrder(ret[1],
                       [i \in DOMAIN arg |-> Canonical(arg[i], arg[i])])

\* C23: every label is mapped to the canonical name of the first table
\* entry, in table order, one of whose variants is a substring of the
\* lowercased label, a label matching no entry passes through normalized,
\* and the results come in first-seen order without duplicates.
C23_FirstMatchOnLoweredLabel ==
    (ret # <<>> /\ arg \in Seq(RawLabels)) =>
        FirstSeenOrder(ret[1],
                       [i \in DOMAIN arg |-> Canonical(Lower(arg[i]), arg[i])])

\* A call on "renal hepatic", "aorta!", "Aorta": the first label matches two
\* entries, the others none, and they normalize to one label.
C23_Witness ==
    /\ arg = <<<<"r", "e", "n", "a", "l", " ", "h", "e", "p", "a", "t", "i", "c">>,
               <<"a", "o", "r", "t", "a", "!">>,
               <<"A", "o", "r", "t", "a">>>>
    /\ ret = << <<<<"l", "i", "v", "e", "r">>, <<"a", "o", "r", "t", "a">>>> >>

\* C25: the confidence in the output of the validation stage lies in [0, 1],
\* however many labels the report text omits.
C25_ValidationConfidenceInUnitInterval ==
    ret # <<>> =>
        /\ ~IsNegative(ret[1].confidence)
        /\ GreaterEq(One, ret[1].confidence)

\* C26: what execute() records agrees with what it returns: the entry it
\* appended to the history is 'success', and the agent is left 'completed',
\* only if the returned metadata status is 'success'.
C26_RecordAgreesWithReturn ==
    \A s \in Stages :
        (processing_history[s] # <<>> /\ direct # s) =>
            LET entry == processing_history[s][Len(processing_history[s])]
                returned == results[Caller][s]
            IN /\ entry.status = "success" => returned.status = "success"
               /\ status[s] = "completed" => returned.status = "success"

\* C27: between the calls of a single-threaded client, an agent's last_error
\* is non-null exactly when its status is 'error'.
C27_ErrorIffStatusError ==
    direct = None =>
        \A s \in Stages : (last_error[s] # None) <=> (status[s] = "error")

\* An agent on which a faulting execute() was followed by a successful one.
C27_Witness ==
    /\ direct = None
    /\ \E s \in Stages :
          /\ Len(processing_history[s]) = 2
          /\ processing_history[s][1].status = "error"
          /\ results[Caller][s].status = "success"
          /\ status[s] = "completed"
          /\ last_error[s] = None

\* The number of records whose status is st.
RecordsIn(st) ==
    Cardinality({id \in 1..Len(workflows) : workflows[id].status = st})

\* C28: after any sequence of create_workflow() and complete_workflow()
\* calls, the counter of each completion status equals the number of records
\* in that status, and total equals the sum of these counters plus the
\* number of records still 'created'.
C28_CountersMatchRecords ==
    /\ \A st \in {"completed", "success", "error"} : Stat(st) = RecordsIn(st)
    /\ Stat("total") = Completions + RecordsIn("created")

\* The canonical form of one raw label.
CanonicalForm(label) ==
    extract_anatomical_labels(normalize_labels(<<label>>))[1]

\* C29: in the output of the segmentation stage's model path, the label and
\* the confidence at a position are those of the detection whose mask is at
\* that position: the label is the canonical form of that detection's raw
\* label.
C29_OutputStaysAligned ==
    ret # <<>> =>
        /\ Len(ret[1].labels) = Len(ret[1].masks)
        /\ Len(ret[1].confidences) = Len(ret[1].masks)
        /\ \A j \in DOMAIN ret[1].masks :
              LET detection == ret[1].masks[j][2]
              IN /\ ret[1].confidences[j] =
                        arg.segmentation_results.confidences[detection]
                 /\ ret[1].labels[j] =
                        CanonicalForm(arg.segmentation_results.labels[detection])

\* What a request with reasoning enabled and no user_query leads to: the
\* reasoning stage is invoked, with task 'explain' for an absent or empty
\* query and the task whitespaceTask for a query of white space; its client
\* is not called; its result is the fixed fallback answer with confidence
\* 0.5 and status 'success'.
NoQueryFallsBack(whitespaceTask) ==
    LET ExpectedTask(q) == IF q = " " THEN whitespaceTask ELSE "explain"
    IN /\ \A rq \in [image : Images, user_query : {None, "", " "},
                     enable_reasoning : {TRUE}, enable_validation : BOOLEAN] :
             \A e \in {"ok", "raises"} :
                LET input == StageInput("reasoning", rq)
                    out == ReasoningProcess(input, e)
                IN /\ input.task = ExpectedTask(rq.user_query)
                   /\ out.src = "fallback" /\ ~out.swallowed
                   /\ out.body = ReasoningFallback
                   /\ execute_result("reasoning", out).status = "success"
       /\ \A t \in Callers :
             LET r == PipelineResult(t).reasoning IN
             (/\ pc[t] = "done" /\ outcome[t] = "returned"
              /\ request[t].enable_reasoning
              /\ request[t].user_query \in {None, "", " "}
              /\ ~r.stub) =>
                 /\ \E i \in DOMAIN calls[t] : calls[t][i] = "reasoning"
                 /\ StageInput("reasoning", request[t]).task
                        = ExpectedTask(request[t].user_query)
                 /\ r.src = "fallback" /\ ~r.swallowed
                 /\ r.body.answer = "Clinical reasoning temporarily unavailable."
                 /\ r.body.confidence = Decimal(5)
                 /\ r.status = "success"

\* C30 as stated: the task is 'explain' for every absent or blank query.
C30_NoQueryExplains == NoQueryFallsBack("explain")

\* C30: when reasoning is enabled and the request carries no user_query, the
\* controller still invokes the reasoning stage, with task 'explain' when
\* the query is absent or empty and with task 'qa' when it is white space;
\* the reasoning client is never called, and the reasoning sub-result is the
\* fixed fallback answer with confidence 0.5 and status 'success'.
C30_NoQueryFallsBack == NoQueryFallsBack("qa")

\* A returned request with reasoning enabled and a query of white space.
C30_Witness ==
    \E t \in Callers :
        /\ pc[t] = "done" /\ outcome[t] = "returned"
        /\ request[t].enable_reasoning
        /\ request[t].user_query = " "
        /\ LastCall(t) \in {"reasoning", "validation"}
        /\ PipelineResult(t).reasoning.src = "fallback"
        /\ PipelineResult(t).reasoning.status = "success"
====
